---- MODULE Spec2Model ----
(***************************************************************************)
(* Model of the GARF group-formation pipeline (Kantoration/Bloom):         *)
(*   raw survey responses -> NormalizationService.extract_features         *)
(*   -> features DataFrame -> GroupingEngine.run -> groups, explanations.  *)
(* The greedy builder (sotrim_algo.build_one_group_optimized), the scorer  *)
(* (group_score) with its module-level caches and both compatibility       *)
(* matrix builders are modelled from the source.                           *)
(*                                                                         *)
(* Row indices are 0-based as in the DataFrame; TLA+ sequences are 1-based,*)
(* so the p-th entry (p from 0) of a Python list L is L[p + 1].            *)
(* Scores are exact rationals <<numerator, denominator>>; the floating     *)
(* point rounding of numpy is not modelled.                                *)
(***************************************************************************)
EXTENDS Integers, Sequences, FiniteSets, TLC

(***************************************************************************)
(* Bounds of the model                                                     *)
(***************************************************************************)
\* number of rows of the generic populations
NumRows == 5
\* number of engine runs that share the module-level caches
MaxRuns == 3

(***************************************************************************)
(* Program constants                                                       *)
(***************************************************************************)
\* sotrim_algo.py:36,175  CONFIG["algorithm_settings"]["group_size"]
GROUP_SIZE == 6
\* sotrim_algo.py:977     min_group_size = 4 inside build_one_group_optimized
BUILDER_MIN_GROUP_SIZE == 4
\* grouping_engine.py:45  self.policy.get("group_size", 6)
DEFAULT_POLICY_GROUP_SIZE == 6
\* grouping_engine.py:68  fallback.get("min_group_size", 4)
DEFAULT_POLICY_MIN_GROUP_SIZE == 4

\* numpy NaN / a column value that is absent for the row
NaN == -1
\* band.get("max_spread") is None
NoSpread == -1

(***************************************************************************)
(* Small helpers                                                           *)
(***************************************************************************)
Abs(a) == IF a < 0 THEN -a ELSE a

Min2(a, b) == IF a <= b THEN a ELSE b

Max2(a, b) == IF a >= b THEN a ELSE b

RECURSIVE GCD(_, _)
GCD(a, b) == IF b = 0 THEN a ELSE GCD(b, a % b)

Range(s) == {s[k] : k \in 1..Len(s)}

SetMin(S) == CHOOSE m \in S : \A o \in S : m <= o

SetMax(S) == CHOOSE m \in S : \A o \in S : m >= o

RECURSIVE SumOver(_, _)
SumOver(S, f) ==
  IF S = {} THEN 0
  ELSE LET e == CHOOSE e \in S : TRUE IN f[e] + SumOver(S \ {e}, f)

\* sorted(S) of a set of ints
RECURSIVE SortedSeq(_)
SortedSeq(S) ==
  IF S = {} THEN <<>>
  ELSE LET m == SetMin(S) IN <<m>> \o SortedSeq(S \ {m})

(***************************************************************************)
(* Survey schema, raw answers (schemas/survey.py, normalization.py)        *)
(***************************************************************************)
\* the options declared for the single_select field "language"
LanguageOptions == {"he", "en"}

\* the raw answers a respondent can give on "language"; "" is no answer
\* and "any" is the flexible ("doesn't matter") answer
RawLanguages == {"he", "en", "any", ""}

\* FieldDefinition.normalization of the "language" field: hasBlock = FALSE is
\* normalization = None; synonyms is a set of <<from, to>> pairs
NoNormalization ==
  [hasBlock |-> FALSE, wildcards |-> {}, expansion |-> {}, synonyms |-> {}]

NormAllOptions ==
  [hasBlock |-> TRUE, wildcards |-> {"any"}, expansion |-> {}, synonyms |-> {}]

NormExpansion ==
  [hasBlock |-> TRUE, wildcards |-> {}, expansion |-> {"he", "en"},
   synonyms |-> {<<"heb", "he">>}]

NormNarrow ==
  [hasBlock |-> TRUE, wildcards |-> {"any"}, expansion |-> {"he"}, synonyms |-> {}]

\* a block whose expansion lists an answer label that its synonyms rewrite
NormSynonymExpansion ==
  [hasBlock |-> TRUE, wildcards |-> {"any"}, expansion |-> {"heb", "en"},
   synonyms |-> {<<"heb", "he">>}]

\* a block that declares a wildcard of its own, other than the policy's
\* flexible answer
NormOwnWildcard ==
  [hasBlock |-> TRUE, wildcards |-> {"either"}, expansion |-> {}, synonyms |-> {}]

\* rules["synonyms"] lookup (normalization.py:75-76)
ApplySynonyms(norm, value) ==
  IF \E p \in norm.synonyms : p[1] = value
  THEN (CHOOSE p \in norm.synonyms : p[1] = value)[2]
  ELSE value

\* NormalizationService.normalize_answer; field is [options, normalization]
normalize_answer(value, field, flexible_answers) ==
  IF value = "" THEN {}
  ELSE IF ~field.normalization.hasBlock THEN {value}
  ELSE LET v == ApplySynonyms(field.normalization, value) IN
       IF v \in field.normalization.wildcards \/ v \in flexible_answers
       THEN IF field.normalization.expansion # {} THEN field.normalization.expansion
            ELSE IF field.options # {} THEN field.options
            ELSE {v}
       ELSE {v}

\* NormalizationService.normalize_multi_answer on the list of parts of a
\* multi_select answer (empty parts are dropped)
normalize_multi_answer(parts, field, flexible_answers) ==
  UNION {normalize_answer(part, field, flexible_answers) : part \in parts \ {""}}

\* the single_select field "language" under one normalization block
LanguageField(norm) == [options |-> LanguageOptions, normalization |-> norm]

\* the multi_select field "area", declared without a normalization block
AreaField == [options |-> {"north", "south"}, normalization |-> NoNormalization]

\* NormalizationService.extract_features followed by the DataFrame row that
\* run_grouping_task builds from numeric_json and categorical_json: a key that
\* is absent from the row's dict is NaN in the frame (empty set / NaN here)
extract_features(response, norm, flexible_answers) ==
  [language |-> normalize_answer(response.language, LanguageField(norm), flexible_answers),
   area     |-> normalize_multi_answer(response.area, AreaField, flexible_answers),
   budget   |-> response.budget,
   age      |-> response.age,
   x        |-> response.x]

\* validation.is_flexible_answer: the field's own wildcards when it declares
\* any, else the hard-coded default list ("any" stands for one of its entries)
is_flexible_answer(value, field) ==
  IF field.normalization.hasBlock /\ field.normalization.wildcards # {}
  THEN value \in field.normalization.wildcards
  ELSE value \in {"any"}

\* validation.validate_response, single_select branch: TRUE when the answer
\* raises no "Invalid option" error
validate_single_select(value, field) ==
  \/ value = ""
  \/ field.options = {}
  \/ value \in field.options
  \/ is_flexible_answer(value, field)

(***************************************************************************)
(* Policy documents and module configuration                               *)
(***************************************************************************)
\* group_constraints.get("max_age_difference") / .get("max_age_std") is None
NoLimit == -1

\* policy.get("age_rules") is None / CONFIG["constraints"].get("age_rules", None)
NoAgeRules ==
  [present |-> FALSE, bands |-> <<>>, allow_cross_band |-> FALSE,
   boundary_slack_years |-> 0, legacy_max_age_difference |-> NoLimit,
   max_age_difference |-> NoLimit, max_age_std |-> NoLimit]

\* two overlapping bands (as in tools/test_improvements.py) with whole-group
\* limits in group_constraints
BandedAgeRules ==
  [present |-> TRUE,
   bands |-> << [min |-> 20, max |-> 29, max_spread |-> 8],
                [min |-> 25, max |-> 60, max_spread |-> NoSpread] >>,
   allow_cross_band |-> FALSE, boundary_slack_years |-> 0,
   legacy_max_age_difference |-> NoLimit,
   max_age_difference |-> 10, max_age_std |-> 6]

\* disjoint bands that may be crossed
CrossBandAgeRules ==
  [present |-> TRUE,
   bands |-> << [min |-> 20, max |-> 29, max_spread |-> 8],
                [min |-> 30, max |-> 60, max_spread |-> 30] >>,
   allow_cross_band |-> TRUE, boundary_slack_years |-> 2,
   legacy_max_age_difference |-> NoLimit,
   max_age_difference |-> NoLimit, max_age_std |-> NoLimit]

\* GroupingEngine._parse_policy: the fields the engine reads from the policy
PolicyLanguage ==
  [group_size |-> DEFAULT_POLICY_GROUP_SIZE, min_group_size |-> DEFAULT_POLICY_MIN_GROUP_SIZE,
   subspaces |-> <<>>, categorical_equal |-> {"language"}, multi_overlap |-> {},
   numeric_tol |-> NaN, age_rules |-> NoAgeRules, flexible_answers |-> {"any"}]

PolicyFull ==
  [group_size |-> DEFAULT_POLICY_GROUP_SIZE, min_group_size |-> DEFAULT_POLICY_MIN_GROUP_SIZE,
   subspaces |-> <<>>, categorical_equal |-> {"language"}, multi_overlap |-> {"area"},
   numeric_tol |-> 2, age_rules |-> BandedAgeRules, flexible_answers |-> {"any"}]

PolicySubspace ==
  [group_size |-> DEFAULT_POLICY_GROUP_SIZE, min_group_size |-> 5,
   subspaces |-> <<"language">>, categorical_equal |-> {}, multi_overlap |-> {},
   numeric_tol |-> 2, age_rules |-> NoAgeRules, flexible_answers |-> {}]

\* a policy whose fallback.min_group_size exceeds its group_size
PolicyContradictory ==
  [group_size |-> 4, min_group_size |-> 5,
   subspaces |-> <<>>, categorical_equal |-> {"language"}, multi_overlap |-> {},
   numeric_tol |-> NaN, age_rules |-> NoAgeRules, flexible_answers |-> {"any"}]

PolicySmall ==
  [group_size |-> 4, min_group_size |-> DEFAULT_POLICY_MIN_GROUP_SIZE,
   subspaces |-> <<"language">>, categorical_equal |-> {"language"}, multi_overlap |-> {},
   numeric_tol |-> NaN, age_rules |-> CrossBandAgeRules, flexible_answers |-> {"any"}]

\* load_config(): the fallback CONFIG (no constraints, sparse matrices) and a
\* group_formation_config.json that configures the legacy cut fields
ConfigDefault ==
  [use_sparse_matrix |-> TRUE, hard_categorical |-> {}, hard_multi_choice |-> {},
   hard_numeric_tolerance |-> NaN, age_rules |-> NoAgeRules, flexible_answers |-> {"any"}]

ConfigDense ==
  [use_sparse_matrix |-> FALSE, hard_categorical |-> {}, hard_multi_choice |-> {},
   hard_numeric_tolerance |-> NaN, age_rules |-> NoAgeRules, flexible_answers |-> {"any"}]

ConfigCuts ==
  [use_sparse_matrix |-> FALSE, hard_categorical |-> {"language"}, hard_multi_choice |-> {"area"},
   hard_numeric_tolerance |-> 2, age_rules |-> BandedAgeRules, flexible_answers |-> {"any"}]

ConfigCross ==
  [use_sparse_matrix |-> TRUE, hard_categorical |-> {}, hard_multi_choice |-> {},
   hard_numeric_tolerance |-> NaN, age_rules |-> CrossBandAgeRules, flexible_answers |-> {"any"}]

(***************************************************************************)
(* Age rules                                                               *)
(***************************************************************************)
\* the indices of the bands that contain an age
BandsOf(age, bands) ==
  {k \in 1..Len(bands) : bands[k].min <= age /\ age <= bands[k].max}

\* variant of check_age_compatibility: the cross-band limit is taken from the
\* bands of age1 only
check_age_compatibility_bands1(age1, age2, age_rules) ==
  IF ~age_rules.present \/ age1 = NaN \/ age2 = NaN THEN FALSE
  ELSE IF age_rules.legacy_max_age_difference # NoLimit
  THEN Abs(age1 - age2) <= age_rules.legacy_max_age_difference
  ELSE LET bands1 == BandsOf(age1, age_rules.bands)
           bands2 == BandsOf(age2, age_rules.bands)
           common == bands1 \cap bands2
           limited == {k \in common : age_rules.bands[k].max_spread # NoSpread}
           spreads == {age_rules.bands[k].max_spread :
                         k \in {b \in bands1 : age_rules.bands[b].max_spread # NoSpread}}
       IN IF bands1 = {} \/ bands2 = {} THEN FALSE
          ELSE IF common # {}
          THEN limited = {} \/
               Abs(age1 - age2) <= SetMin({age_rules.bands[k].max_spread : k \in limited})
          ELSE IF ~age_rules.allow_cross_band THEN FALSE
          ELSE Abs(age1 - age2) <= SetMax(spreads \cup {0})

\* sotrim_algo.check_age_compatibility
check_age_compatibility(age1, age2, age_rules) ==
  IF ~age_rules.present \/ age1 = NaN \/ age2 = NaN THEN FALSE
  ELSE IF age_rules.legacy_max_age_difference # NoLimit
  THEN Abs(age1 - age2) <= age_rules.legacy_max_age_difference
  ELSE LET bands1 == BandsOf(age1, age_rules.bands)
           bands2 == BandsOf(age2, age_rules.bands)
           common == bands1 \cap bands2
           limited == {k \in common : age_rules.bands[k].max_spread # NoSpread}
           spreads == {age_rules.bands[k].max_spread :
                         k \in {b \in bands1 \cup bands2 :
                                  age_rules.bands[b].max_spread # NoSpread}}
       IN IF bands1 = {} \/ bands2 = {} THEN FALSE
          ELSE IF common # {}
          THEN limited = {} \/
               Abs(age1 - age2) <= SetMin({age_rules.bands[k].max_spread : k \in limited})
          ELSE IF ~age_rules.allow_cross_band THEN FALSE
          ELSE Abs(age1 - age2) <= SetMax(spreads \cup {0})

\* GroupingEngine._check_age_compatibility
engine_check_age_compatibility(age1, age2, age_rules) ==
  IF ~age_rules.present THEN TRUE
  ELSE LET bands1 == BandsOf(age1, age_rules.bands)
           bands2 == BandsOf(age2, age_rules.bands)
           common == bands1 \cap bands2
       IN IF \E k \in common : \/ age_rules.bands[k].max_spread = NoSpread
                               \/ Abs(age1 - age2) <= age_rules.bands[k].max_spread
          THEN TRUE
          ELSE IF age_rules.allow_cross_band
          THEN Abs(age1 - age2) <= age_rules.boundary_slack_years
          ELSE FALSE

(***************************************************************************)
(* Compatibility matrices                                                  *)
(***************************************************************************)
\* the rows of a frame are features_df[0..n-1]
RowIndices(df) == 0..(Len(df) - 1)

Row(df, i) == df[i + 1]

\* "field in df.columns": a DataFrame built from row dicts has a column for
\* every key that occurs in at least one row
InColumns(df, field) ==
  \E i \in RowIndices(df) :
     IF field \in {"language", "area"} THEN Row(df, i)[field] # {}
     ELSE Row(df, i)[field] # NaN

\* variant of _check_categorical_match: two non-empty sets always match
check_categorical_match_nonempty(val1, val2) == val1 # {} /\ val2 # {}

\* GroupingEngine._check_categorical_match on two frame cells (a list, or NaN
\* which is the empty set here)
check_categorical_match(val1, val2) ==
  IF val1 # {} /\ val2 # {} THEN val1 \cap val2 # {} ELSE FALSE

\* GroupingEngine._check_multi_overlap
check_multi_overlap(val1, val2) == val1 \cap val2 # {}

\* body of the pair loop of GroupingEngine._build_compatibility_matrix for the
\* rows a (position i) and b (position j), i < j
EnginePairCompatible(df, policy, a, b) ==
  LET catOK == \A f \in policy.categorical_equal :
                  InColumns(df, f) => check_categorical_match(a[f], b[f])
      multiOK == \A f \in policy.multi_overlap :
                  InColumns(df, f) => check_multi_overlap(a[f], b[f])
      numOK == ~( /\ policy.numeric_tol # NaN
                  /\ InColumns(df, "budget")
                  /\ a.budget # NaN /\ b.budget # NaN
                  /\ Abs(a.budget - b.budget) > policy.numeric_tol )
      ageOK == ~( /\ policy.age_rules.present
                  /\ InColumns(df, "age")
                  /\ a.age # NaN /\ b.age # NaN
                  /\ ~engine_check_age_compatibility(a.age, b.age, policy.age_rules) )
  IN catOK /\ multiOK /\ numOK /\ ageOK

\* GroupingEngine._build_compatibility_matrix(df_subset, available): entry
\* <<p, q>> addresses the p-th and q-th entries of available; only p < q is
\* computed, the result is written to both [p,q] and [q,p], the diagonal is
\* filled with True
build_compatibility_matrix(df, policy, available) ==
  [pq \in (0..(Len(available) - 1)) \X (0..(Len(available) - 1)) |->
     IF pq[1] = pq[2] THEN TRUE
     ELSE LET lo == Min2(pq[1], pq[2])
              hi == Max2(pq[1], pq[2])
          IN EnginePairCompatible(df, policy, Row(df, available[lo + 1]),
                                  Row(df, available[hi + 1]))]

\* str(val).strip() of a legacy frame cell: a missing answer reads "nan"
LegacyCell(raw) == IF raw = "" THEN "nan" ELSE raw

\* sotrim_algo.build_normalization_rules for the column "language": the
\* flexible answers present in the column map to the concrete answers present
\* in the column (NaN cells are dropped); no rule when either side is empty
LegacyConcrete(rawdf, config) ==
  LET unique == {Row(rawdf, i).language : i \in RowIndices(rawdf)} \ {""}
  IN unique \ config.flexible_answers

LegacyFlexible(rawdf, config) ==
  LET unique == {Row(rawdf, i).language : i \in RowIndices(rawdf)} \ {""}
  IN IF unique \ config.flexible_answers = {} THEN {}
     ELSE unique \cap config.flexible_answers

\* sotrim_algo.normalize_answer(answer, "language")
legacy_normalize_answer(answer, rawdf, config) ==
  IF answer \in LegacyFlexible(rawdf, config)
  THEN LegacyConcrete(rawdf, config)
  ELSE {answer}

\* sotrim_algo.to_set on the parts of a multi-choice cell of a column that
\* holds no flexible answer
to_set(parts) == {part \in parts : part # ""}

\* one entry of build_compatibility_matrix_vectorized for the ordered pair of
\* rows a (position i) and b (position j) of the legacy frame
VectorizedPairCompatible(rawdf, config, a, b) ==
  LET catOK == \A f \in config.hard_categorical :
                  legacy_normalize_answer(LegacyCell(a[f]), rawdf, config)
                    \cap legacy_normalize_answer(LegacyCell(b[f]), rawdf, config) # {}
      multiOK == \A f \in config.hard_multi_choice :
                  to_set(a[f]) \cap to_set(b[f]) # {}
      ageOK == config.age_rules.present =>
                  /\ a.age # NaN /\ b.age # NaN
                  /\ check_age_compatibility(a.age, b.age, config.age_rules)
      numOK == config.hard_numeric_tolerance # NaN =>
                  /\ a.budget # NaN /\ b.budget # NaN
                  /\ Abs(a.budget - b.budget) <= config.hard_numeric_tolerance
  IN catOK /\ multiOK /\ ageOK /\ numOK

\* sotrim_algo.build_compatibility_matrix_vectorized(df, indices): every
\* ordered pair is computed on its own; the diagonal is set to True at the end
build_compatibility_matrix_vectorized(rawdf, config, indices) ==
  [pq \in (0..(Len(indices) - 1)) \X (0..(Len(indices) - 1)) |->
     IF pq[1] = pq[2] THEN TRUE
     ELSE VectorizedPairCompatible(rawdf, config, Row(rawdf, indices[pq[1] + 1]),
                                   Row(rawdf, indices[pq[2] + 1]))]

(***************************************************************************)
(* Group scorer with the module-level caches _score_cache, _feature_cache  *)
(***************************************************************************)
\* exact rationals <<n, d>> with d > 0, in lowest terms
Rat(n, d) ==
  LET g == GCD(Abs(n), Abs(d))
      sgn == IF d < 0 THEN -1 ELSE 1
  IN <<(sgn * n) \div g, (sgn * d) \div g>>

RatAdd(a, b) == Rat(a[1] * b[2] + b[1] * a[2], a[2] * b[2])

RatMul(a, b) == Rat(a[1] * b[1], a[2] * b[2])

\* a > b; operands of different sign are compared by sign
RatGreater(a, b) ==
  IF a[1] >= 0 /\ b[1] < 0 THEN TRUE
  ELSE IF a[1] < 0 /\ b[1] >= 0 THEN FALSE
  ELSE a[1] * b[2] > b[1] * a[2]

\* CONFIG["scoring_weights"]: beta_diversity 1.0, gamma_similarity 0.2
BETA_DIVERSITY == <<1, 1>>

GAMMA_SIMILARITY == <<1, 5>>

\* best_score = -1e9 before the first candidate is scored
MinusInfinity == <<-1000000000, 1>>

\* the column "x" of df.loc[members], in the order of members (a sequence of
\* row labels): the feature array that get_cached_features stores
FeatureColumn(df, members) == [k \in 1..Len(members) |-> Row(df, members[k]).x]

\* sum of f over the positions of a sequence of numbers
RECURSIVE SeqSum(_)
SeqSum(xs) == IF xs = <<>> THEN 0 ELSE Head(xs) + SeqSum(Tail(xs))

\* vals.var() of pandas (ddof = 1) over the non-NaN values, as a rational
Variance(xs) ==
  LET vals == SelectSeq(xs, LAMBDA v : v # NaN)
      k == Len(vals)
      sq == [i \in 1..k |-> vals[i] * vals[i]]
  IN Rat(k * SeqSum(sq) - SeqSum(vals) * SeqSum(vals), k * (k - 1))

\* the diversity term: np.mean of the variances of the DEFINE_NUMERIC columns
\* that have more than one value (one column, "x")
Diversity(xs) ==
  IF Len(SelectSeq(xs, LAMBDA v : v # NaN)) > 1 THEN Variance(xs) ELSE <<0, 1>>

\* the similarity bonus 1 / (1 + mean pairwise distance) on the min-max
\* normalised feature array X; 0 when the column is all NaN or no pair is valid
SimilarityBonus(X) ==
  LET present == {i \in 1..Len(X) : X[i] # NaN}
      pairs == {pq \in present \X present : pq[1] < pq[2]}
      lo == SetMin({X[i] : i \in present})
      hi == SetMax({X[i] : i \in present})
      denom == IF hi - lo = 0 THEN 1 ELSE hi - lo
      dist == [pq \in pairs |-> Abs(X[pq[1]] - X[pq[2]])]
      count == Cardinality(pairs)
  IN IF present = {} \/ pairs = {} THEN <<0, 1>>
     ELSE Rat(count * denom, count * denom + SumOver(pairs, dist))

\* get_cached_features: the array cached under the sorted tuple of labels, or
\* the array extracted from the frame
CachedFeatures(df, members, fcache) ==
  IF Range(members) \in DOMAIN fcache THEN fcache[Range(members)]
  ELSE FeatureColumn(df, members)

\* the value group_score computes when it does not return from _score_cache
ComputeScore(df, members, fcache) ==
  LET xs == FeatureColumn(df, members)
      hasVar == Len(SelectSeq(xs, LAMBDA v : v # NaN)) > 1
      sim == IF Len(members) >= 2 /\ hasVar
             THEN SimilarityBonus(CachedFeatures(df, members, fcache))
             ELSE <<0, 1>>
  IN RatAdd(RatMul(BETA_DIVERSITY, Diversity(xs)), RatMul(GAMMA_SIMILARITY, sim))

\* group_score(df.loc[members], explain): the score returned
group_score(df, members, explain, scache, fcache) ==
  IF Range(members) \in DOMAIN scache /\ ~explain THEN scache[Range(members)]
  ELSE ComputeScore(df, members, fcache)

\* _score_cache after group_score(df.loc[members], explain)
ScoreCacheAfter(df, members, explain, scache, fcache) ==
  IF Range(members) \in DOMAIN scache /\ ~explain THEN scache
  ELSE (Range(members) :> ComputeScore(df, members, fcache)) @@ scache

\* _feature_cache after group_score(df.loc[members], explain)
FeatureCacheAfter(df, members, explain, scache, fcache) ==
  LET xs == FeatureColumn(df, members)
      hasVar == Len(SelectSeq(xs, LAMBDA v : v # NaN)) > 1
  IN IF Range(members) \in DOMAIN scache /\ ~explain THEN fcache
     ELSE IF Len(members) >= 2 /\ hasVar /\ Range(members) \notin DOMAIN fcache
     THEN (Range(members) :> xs) @@ fcache
     ELSE fcache

(***************************************************************************)
(* Whole-group constraints                                                 *)
(***************************************************************************)
\* band_id inside pass_group_constraints: first band that contains the age
band_id(age, bands) ==
  IF BandsOf(age, bands) = {} THEN -1 ELSE SetMin(BandsOf(age, bands))

\* age range of a sequence of ages
AgeRange(ages) == SetMax(Range(ages)) - SetMin(Range(ages))

\* np.std(ages) <= limit  (population standard deviation), squared
StdWithin(ages, limit) ==
  LET k == Len(ages)
      sq == [i \in 1..k |-> ages[i] * ages[i]]
  IN k * SeqSum(sq) - SeqSum(ages) * SeqSum(ages) <= limit * limit * k * k

\* sotrim_algo.pass_group_constraints(df.loc[members]) under the module's
\* AGE_RULES
pass_group_constraints(df, members, age_rules) ==
  IF age_rules.present /\ InColumns(df, "age")
  THEN LET ages == [k \in 1..Len(members) |-> Row(df, members[k]).age]
       IN /\ \A k \in 1..Len(ages) : ages[k] # NaN
          /\ age_rules.max_age_difference # NoLimit =>
               AgeRange(ages) <= age_rules.max_age_difference
          /\ age_rules.max_age_std # NoLimit => StdWithin(ages, age_rules.max_age_std)
          /\ (Len(age_rules.bands) > 0 /\ ~age_rules.allow_cross_band) =>
               Cardinality({band_id(ages[k], age_rules.bands) : k \in 1..Len(ages)}) <= 1
  ELSE TRUE

(***************************************************************************)
(* Subspace partitioner                                                    *)
(***************************************************************************)
\* lexicographic rank of the tokens that occur in keys
TokenRank(t) ==
  CASE t = "any" -> 1 [] t = "en" -> 2 [] t = "he" -> 3 [] t = "heb" -> 4
    [] t = "nan" -> 5 [] t = "north" -> 6 [] t = "south" -> 7 [] OTHER -> 8

\* sorted(value) of a list cell
RECURSIVE SortedTokens(_)
SortedTokens(S) ==
  IF S = {} THEN <<>>
  ELSE LET m == CHOOSE m \in S : \A o \in S : TokenRank(m) <= TokenRank(o)
       IN <<m>> \o SortedTokens(S \ {m})

\* the composite key of a row: per subspace field <<field, sorted values>>; a
\* NaN cell is formatted as "nan"
SubspaceKey(row, subspaces) ==
  [k \in 1..Len(subspaces) |->
     <<subspaces[k],
       IF row[subspaces[k]] = {} THEN <<"nan">> ELSE SortedTokens(row[subspaces[k]])>>]

\* GroupingEngine._partition_by_subspaces: the dict as a sequence of
\* [key, indices] in insertion order (first occurrence of the key in the rows)
RECURSIVE PartitionRows(_, _, _, _)
PartitionRows(df, subspaces, i, acc) ==
  IF i >= Len(df) THEN acc
  ELSE LET key == SubspaceKey(Row(df, i), subspaces)
           hit == {k \in 1..Len(acc) : acc[k].key = key}
       IN IF hit = {}
          THEN PartitionRows(df, subspaces, i + 1,
                             Append(acc, [key |-> key, indices |-> <<i>>]))
          ELSE LET k == CHOOSE k \in hit : TRUE
               IN PartitionRows(df, subspaces, i + 1,
                    [acc EXCEPT ![k].indices = Append(@, i)])

\* variant of the partitioner: every row under one key
partition_by_subspaces_one_key(df, subspaces) ==
  << [key |-> <<"global">>, indices |-> [k \in 1..Len(df) |-> k - 1]] >>

partition_by_subspaces(df, subspaces) == PartitionRows(df, subspaces, 0, <<>>)

\* the single partition used when the policy configures no subspaces
GlobalPartition(df) ==
  << [key |-> <<"global">>, indices |-> [k \in 1..Len(df) |-> k - 1]] >>

(***************************************************************************)
(* Greedy builder (sotrim_algo.build_one_group_optimized)                  *)
(***************************************************************************)
\* position (from 1) of a global index in the candidates list
PositionOf(candidates, g) == CHOOSE k \in 1..Len(candidates) : candidates[k] = g

\* global_to_local[g]
LocalOf(candidates, locals, g) == locals[PositionOf(candidates, g)]

\* compat_counts[candidates[k]]: compatible local indices other than itself
CompatCount(matrix, locals, k) ==
  Cardinality({j \in 1..Len(locals) : locals[j] # locals[k] /\ matrix[<<locals[k], locals[j]>>]})

\* variant of SelectSeed: max(compat_counts, key=compat_counts.get)
SelectSeed_MaxDegree(candidates, matrix, locals) ==
  LET most == SetMax({CompatCount(matrix, locals, k) : k \in 1..Len(candidates)})
      first == SetMin({k \in 1..Len(candidates) : CompatCount(matrix, locals, k) = most})
  IN candidates[first]

\* min(compat_counts, key=compat_counts.get): the first candidate, in list
\* order, whose count is minimal
SelectSeed(candidates, matrix, locals) ==
  LET least == SetMin({CompatCount(matrix, locals, k) : k \in 1..Len(candidates)})
      first == SetMin({k \in 1..Len(candidates) : CompatCount(matrix, locals, k) = least})
  IN candidates[first]

\* the slot a key ends in when it is added to a set table of 8 slots: slot
\* hash & 7, and on a collision slot (5 * i + 1) & 7 (the perturbation of a
\* key below 32 is zero); the table maps a slot to {} or to {key}
RECURSIVE ProbeSlot(_, _)
ProbeSlot(table, i) == IF table[i] = {} THEN i ELSE ProbeSlot(table, (5 * i + 1) % 8)

\* the 8-slot table after the keys of a sequence were added in order
RECURSIVE SmallTable(_, _)
SmallTable(keys, table) ==
  IF keys = <<>> THEN table
  ELSE SmallTable(Tail(keys),
                  [table EXCEPT ![ProbeSlot(table, Head(keys) % 8)] = {Head(keys)}])

\* iteration over a set of at most four keys that were added in the given
\* order: the keys by ascending slot
SmallSetOrder(keys) ==
  LET table == SmallTable(keys, [i \in 0..7 |-> {}])
      slots == SortedSeq({i \in 0..7 : table[i] # {}})
  IN [k \in 1..Len(slots) |-> CHOOSE key \in table[slots[k]] : TRUE]

\* iteration over a set of int keys (below 32, fewer than 20) built by adding
\* the keys in the given order: a set of five or more keys has a table of 32
\* slots, each key in slot hash = key; a smaller one has 8 slots
SetOrder(keys) ==
  IF Len(keys) <= 4 THEN SmallSetOrder(keys) ELSE SortedSeq(Range(keys))

\* list(remaining_global) for remaining_global = set(candidates) -
\* {seed_global}: the difference is a new set filled in the iteration order of
\* set(candidates); later removals leave the order of the others unchanged
RemainingOrder(candidates, seed, remaining) ==
  LET so == SetOrder(candidates)
      rest == SelectSeq(so, LAMBDA g : g # seed)
  IN SelectSeq(SetOrder(rest), LAMBDA g : g \in remaining)

\* feasibles_global: the remaining candidates, in the iteration order of the
\* set, that are compatible with every member and keep the group constraints
Feasibles(df, candidates, matrix, locals, group, remaining, age_rules) ==
  SelectSeq(RemainingOrder(candidates, group[1], remaining),
            LAMBDA g :
              /\ \A m \in Range(group) :
                    matrix[<<LocalOf(candidates, locals, g), LocalOf(candidates, locals, m)>>]
              /\ pass_group_constraints(df, Append(group, g), age_rules))

\* the candidate kept by the "if score > best_score" scan over feasibles: the
\* first one, in scan order, whose score no later or earlier one exceeds
BestCandidate(df, feasibles, group, scache, fcache) ==
  LET sc(k) == group_score(df, Append(group, feasibles[k]), FALSE, scache, fcache)
      best == SetMin({k \in 1..Len(feasibles) :
                        /\ RatGreater(sc(k), MinusInfinity)
                        /\ \A j \in 1..Len(feasibles) :
                              /\ j < k => RatGreater(sc(k), sc(j))
                              /\ j > k => ~RatGreater(sc(j), sc(k))})
  IN feasibles[best]

\* the caches after the scan has scored every feasible candidate
RECURSIVE ScoreCacheAfterScan(_, _, _, _, _)
ScoreCacheAfterScan(df, feasibles, group, scache, fcache) ==
  IF feasibles = <<>> THEN scache
  ELSE ScoreCacheAfterScan(df, Tail(feasibles), group,
         ScoreCacheAfter(df, Append(group, Head(feasibles)), FALSE, scache, fcache),
         FeatureCacheAfter(df, Append(group, Head(feasibles)), FALSE, scache, fcache))

RECURSIVE FeatureCacheAfterScan(_, _, _, _, _)
FeatureCacheAfterScan(df, feasibles, group, scache, fcache) ==
  IF feasibles = <<>> THEN fcache
  ELSE FeatureCacheAfterScan(df, Tail(feasibles), group,
         ScoreCacheAfter(df, Append(group, Head(feasibles)), FALSE, scache, fcache),
         FeatureCacheAfter(df, Append(group, Head(feasibles)), FALSE, scache, fcache))

(***************************************************************************)
(* State                                                                   *)
(***************************************************************************)
VARIABLES
  responses,        \* the submitted raw responses, in row order
  norm,             \* normalization block of the "language" field
  policy,           \* run.policy_json
  config,           \* sotrim_algo.CONFIG (module configuration)
  driver,           \* "engine": GroupingEngine.run, "legacy": sotrim_algo.make_groups
  features_df,      \* GroupingEngine.features_df
  groups,           \* GroupingEngine.groups
  ungrouped,        \* GroupingEngine.ungrouped
  explanations,     \* GroupingEngine.explanations
  partitions,       \* subspace_partitions of run()
  sub,              \* position of the subspace being processed
  available,        \* available of _process_subspace
  compat_matrix,    \* compat_matrix of _process_subspace
  local_indices,    \* local_indices handed to the builder
  pool,             \* pool of make_groups
  used,             \* used of make_groups
  group_global,     \* group_global of build_one_group_optimized
  remaining_global, \* remaining_global of build_one_group_optimized
  score_cache,      \* sotrim_algo._score_cache
  feature_cache,    \* sotrim_algo._feature_cache
  pc,               \* where the run is
  run,              \* number of the current engine run
  history,          \* results of the finished runs
  verifications,    \* rows of email_verifications; the token of a row is its position
  email_verified,   \* Participant.email_verified of each participant
  now,              \* datetime.utcnow(), in hours
  loaded_tz,        \* tzinfo of an expires_at loaded from the database
  verify_result     \* outcome of the verify_email_token call just made

vars == <<responses, norm, policy, config, driver, features_df, groups,
          ungrouped, explanations, partitions, sub, available, compat_matrix,
          local_indices, pool, used, group_global, remaining_global,
          score_cache, feature_cache, pc, run, history, verifications,
          email_verified, now, loaded_tz, verify_result>>

inputs == <<responses, norm, policy, config, driver>>

email == <<verifications, email_verified, now, loaded_tz, verify_result>>

\* no verify_email_token call was just made
NoCall == [token |-> 0, outcome |-> "nocall"]

\* the email tables of a deployment in which nobody registered an address
NoEmail ==
  /\ verifications = <<>>
  /\ email_verified = <<>>
  /\ now = 0
  /\ loaded_tz = "aware"
  /\ verify_result = NoCall

\* the frame run_grouping_task builds from the stored features of the
\* submitted responses
BuildFrame(resp, nrm, pol) ==
  [k \in 1..Len(resp) |-> extract_features(resp[k], nrm, pol.flexible_answers)]

\* an empty dict
EmptyCache == [key \in {} |-> <<0, 1>>]

\* an empty matrix
EmptyMatrix == [pq \in {} |-> TRUE]

(***************************************************************************)
(* Inputs                                                                  *)
(***************************************************************************)
Response(lang, area, budget, age, x) ==
  [language |-> lang, area |-> area, budget |-> budget, age |-> age, x |-> x]

\* the kinds of respondents of the generic populations
GenericTypes ==
  { Response("he", {"north"}, 3, 26, 1),
    Response("he", {"north"}, NaN, 40, 3),
    Response("any", {"south"}, 6, NaN, 5) }

GenericPopulations == [1..NumRows -> GenericTypes]

\* policy, module configuration and normalization block, as deployed together
Setups ==
  { <<PolicyLanguage, ConfigDense, NoNormalization>>,
    <<PolicyFull, ConfigDense, NormExpansion>>,
    <<PolicySubspace, ConfigDense, NormNarrow>>,
    <<PolicySmall, ConfigCuts, NormAllOptions>>,
    <<PolicyLanguage, ConfigDense, NormSynonymExpansion>> }

\* scenario B: six compatible "he" rows (0..5) and one "en" row (6)
ScenarioB ==
  { [k \in 1..7 |-> Response(IF k = 7 THEN "en" ELSE "he", {"north"}, 3, 26, xs[k])] :
      xs \in [1..7 -> {1, 3}] }

\* scenario D: three "he", two "en" and one flexible answer
ScenarioD ==
  { [k \in 1..6 |-> Response(langs[k], {"north"}, 3, 26, xs[k])] :
      langs \in { <<"he", "he", "he", "en", "en", "any">>,
                  <<"any", "en", "he", "en", "he", "he">>,
                  <<"en", "he", "any", "he", "en", "he">> },
      xs \in [1..6 -> {1, 3}] }

\* seven mutually compatible rows
SevenCompatible ==
  { [k \in 1..7 |-> Response("he", {"north"}, 3, 26, xs[k])] : xs \in [1..7 -> {1, 3}] }

\* eight rows in two languages
EightRows ==
  { [k \in 1..8 |-> Response(langs[k], {"north"}, 3, 26, 1 + 2 * (k % 2))] :
      langs \in [1..8 -> {"he", "en"}] }

\* eight rows of one language that live in two areas
EightRowsTwoAreas ==
  { [k \in 1..8 |-> Response("he", areas[k], 3, 26, 1 + 2 * (k % 2))] :
      areas \in [1..8 -> {{"north"}, {"south"}}] }

\* nine rows in two languages, the last one "en"
NineRows ==
  { [k \in 1..9 |-> Response(langs[k], {"north"}, 3, 26, 1 + 2 * (k % 2))] :
      langs \in {l \in [1..9 -> {"he", "en"}] : l[9] = "en"} }

\* the module configurations make_groups is run under
LegacyConfigs == {ConfigCuts, ConfigCross}

\* GroupingEngine.__init__ for the first run (for make_groups: the frame it is
\* called with); the module caches are empty after import
InitWith(drv, resp, pol, cfg, nrm) ==
  /\ driver = drv
  /\ responses = resp
  /\ norm = nrm
  /\ policy = pol
  /\ config = cfg
  /\ pool = <<>>
  /\ used = {}
  /\ features_df = BuildFrame(resp, nrm, pol)
  /\ groups = <<>>
  /\ ungrouped = 0..(Len(resp) - 1)
  /\ explanations = <<>>
  /\ partitions = <<>>
  /\ sub = 0
  /\ available = <<>>
  /\ compat_matrix = EmptyMatrix
  /\ local_indices = <<>>
  /\ group_global = <<>>
  /\ remaining_global = {}
  /\ score_cache = EmptyCache
  /\ feature_cache = EmptyCache
  /\ pc = "start"
  /\ run = 1
  /\ history = <<>>
  /\ NoEmail

Init ==
  \/ \E resp \in GenericPopulations, su \in Setups :
        InitWith("engine", resp, su[1], su[2], su[3])
  \/ \E resp \in ScenarioB, cfg \in {ConfigDefault, ConfigDense} :
        InitWith("engine", resp, PolicyLanguage, cfg, NormAllOptions)
  \/ \E resp \in ScenarioD, nrm \in {NormAllOptions, NormExpansion, NormNarrow, NoNormalization} :
        InitWith("engine", resp, PolicyLanguage, ConfigDense, nrm)
  \/ \E resp \in SevenCompatible,
          su \in { <<PolicyLanguage, NormAllOptions>>,
                   <<PolicyContradictory, NormAllOptions>>,
                   <<PolicyLanguage, NormOwnWildcard>> } :
        InitWith("engine", resp, su[1], ConfigDense, su[2])
  \/ \E resp \in EightRows, pol \in {PolicyLanguage, PolicySmall, PolicySubspace} :
        InitWith("engine", resp, pol, ConfigDense, NormAllOptions)
  \/ \E resp \in GenericPopulations, cfg \in LegacyConfigs :
        InitWith("legacy", resp, PolicyLanguage, cfg, NoNormalization)
  \/ \E resp \in NineRows :
        InitWith("engine", resp, PolicySmall, ConfigDense, NormAllOptions)
  \/ \E resp \in EightRowsTwoAreas :
        InitWith("legacy", resp, PolicyLanguage, ConfigCuts, NoNormalization)

(***************************************************************************)
(* Run driver (GroupingEngine.run, _process_subspace) and builder steps    *)
(***************************************************************************)
\* variant of Filter: the comprehension without its condition
Filter_Unconditional(seq, keep) == seq

\* [i for i in seq if i in keep]
Filter(seq, keep) == SelectSeq(seq, LAMBDA i : i \in keep)

\* GroupingEngine._create_group_explanation
create_group_explanation(df, pol, group, key, scache, fcache) ==
  LET ages == {Row(df, g).age : g \in Range(group)} \ {NaN}
  IN [subspace    |-> IF key = <<"global">> THEN <<>> ELSE key,
      age_rules   |-> IF pol.age_rules.present /\ InColumns(df, "age") /\ ages # {}
                      THEN <<SetMin(ages), SetMax(ages)>> ELSE <<>>,
      members     |-> group,
      group_score |-> group_score(df, group, TRUE, scache, fcache),
      group_size  |-> Len(group)]

\* variant of get_statistics: counts the groups where it should count their
\* members
get_statistics_counts_groups(df, grps, ungr) ==
  [total_participants     |-> Len(df),
   total_groups           |-> Len(grps),
   grouped_participants   |-> Len(grps),
   ungrouped_participants |-> Len(df) - Len(grps),
   group_sizes            |-> [k \in 1..Len(grps) |-> Len(grps[k])]]

\* GroupingEngine.get_statistics
get_statistics(df, grps, ungr) ==
  [total_participants     |-> Len(df),
   total_groups           |-> Len(grps),
   grouped_participants   |-> Len(df) - Cardinality(ungr),
   ungrouped_participants |-> Cardinality(ungr),
   group_sizes            |-> [k \in 1..Len(grps) |-> Len(grps[k])]]

\* variant of run_grouping_task: the exception of the engine is swallowed
run_grouping_task_swallow(status) ==
  [status |-> "done", error_text |-> "statistics", groups |-> groups]

\* run_grouping_task from engine.run() to its last commit: with status "done"
\* the engine returned, the groups were added and the statistics stored in
\* error_text; with status "failed" engine.run() raised before any db.add and
\* the handler stored str(e)
run_grouping_task(status) ==
  IF status = "done"
  THEN [status |-> "done", error_text |-> "statistics", groups |-> groups]
  ELSE [status |-> "failed", error_text |-> "exception", groups |-> <<>>]

\* make_groups runs outside the API: no GroupingRun row
NoTask == [status |-> "none", error_text |-> "", groups |-> <<>>]

\* what a finished run leaves behind; db is the committed GroupingRun row with
\* the Group rows of the run
RunRecord(status) ==
  [responses |-> responses, norm |-> norm, policy |-> policy, config |-> config,
   status |-> status, groups |-> groups, explanations |-> explanations,
   ungrouped |-> ungrouped, stats |-> get_statistics(features_df, groups, ungrouped),
   db |-> IF driver = "engine" THEN run_grouping_task(status) ELSE NoTask]

\* run(): partition the rows, then process the subspaces in dict order
Run ==
  /\ driver = "engine"
  /\ pc = "start"
  /\ partitions' = IF policy.subspaces # <<>>
                   THEN partition_by_subspaces(features_df, policy.subspaces)
                   ELSE GlobalPartition(features_df)
  /\ sub' = 1
  /\ pc' = "subspace"
  /\ UNCHANGED <<inputs, pool, used, features_df, groups, ungrouped, explanations, available,
                 compat_matrix, local_indices, group_global, remaining_global,
                 score_cache, feature_cache, run, history>>
  /\ UNCHANGED email

\* _process_subspace returns at once: fewer available rows than min_group_size
SkipSubspace ==
  /\ driver = "engine"
  /\ pc = "subspace"
  /\ sub <= Len(partitions)
  /\ Len(Filter(partitions[sub].indices, ungrouped)) < policy.min_group_size
  /\ sub' = sub + 1
  /\ UNCHANGED <<inputs, pool, used, features_df, groups, ungrouped, explanations, partitions,
                 available, compat_matrix, local_indices, group_global,
                 remaining_global, score_cache, feature_cache, pc, run, history>>
  /\ UNCHANGED email

\* _process_subspace: filter the available rows and build the matrix
EnterSubspace ==
  /\ driver = "engine"
  /\ pc = "subspace"
  /\ sub <= Len(partitions)
  /\ LET avail == Filter(partitions[sub].indices, ungrouped)
     IN /\ Len(avail) >= policy.min_group_size
        /\ available' = avail
        /\ compat_matrix' = build_compatibility_matrix(features_df, policy, avail)
  /\ pc' = "loop"
  /\ UNCHANGED <<inputs, pool, used, features_df, groups, ungrouped, explanations, partitions,
                 sub, local_indices, group_global, remaining_global, score_cache,
                 feature_cache, run, history>>
  /\ UNCHANGED email

\* the while condition of _process_subspace fails: on to the next subspace
LeaveSubspace ==
  /\ driver = "engine"
  /\ pc = "loop"
  /\ Len(available) < policy.min_group_size
  /\ sub' = sub + 1
  /\ pc' = "subspace"
  /\ UNCHANGED <<inputs, pool, used, features_df, groups, ungrouped, explanations, partitions,
                 available, compat_matrix, local_indices, group_global,
                 remaining_global, score_cache, feature_cache, run, history>>
  /\ UNCHANGED email

\* _build_group -> build_one_group_optimized with sparse matrices enabled:
\* compat_matrix[local_idx, :].toarray() on the engine's dense ndarray raises
\* AttributeError, which leaves run()
BuildGroupRaises ==
  /\ driver = "engine"
  /\ pc = "loop"
  /\ Len(available) >= policy.min_group_size
  /\ config.use_sparse_matrix
  /\ local_indices' = [k \in 1..Len(available) |-> k - 1]
  /\ pc' = "failed"
  /\ history' = Append(history, RunRecord("failed"))
  /\ UNCHANGED <<inputs, pool, used, features_df, groups, ungrouped, explanations, partitions,
                 sub, available, compat_matrix, group_global, remaining_global,
                 score_cache, feature_cache, run>>
  /\ UNCHANGED email

\* build_one_group_optimized up to the while loop: choose the seed
StartGroup ==
  /\ driver = "engine"
  /\ pc = "loop"
  /\ Len(available) >= policy.min_group_size
  /\ ~config.use_sparse_matrix
  /\ LET locals == [k \in 1..Len(available) |-> k - 1]
         seed == SelectSeed(available, compat_matrix, locals)
     IN /\ local_indices' = locals
        /\ group_global' = <<seed>>
        /\ remaining_global' = Range(available) \ {seed}
  /\ pc' = "extend"
  /\ UNCHANGED <<inputs, pool, used, features_df, groups, ungrouped, explanations, partitions,
                 sub, available, compat_matrix, score_cache, feature_cache, run,
                 history>>
  /\ UNCHANGED email

\* the frame handed to the builder: the engine's feature frame, or the raw
\* frame make_groups was called with
Frame == IF driver = "legacy" THEN responses ELSE features_df

\* the feasible candidates of the current iteration of the builder's loop
CurrentFeasibles ==
  Feasibles(Frame, available, compat_matrix, local_indices, group_global,
            remaining_global, config.age_rules)

\* the builder's loop goes on
BuilderLoops ==
  /\ Len(group_global) < GROUP_SIZE
  /\ remaining_global # {}
  /\ CurrentFeasibles # <<>>

\* variant of Extend: the appended candidate stays among the remaining ones
Extend_KeepCandidate ==
  /\ pc = "extend"
  /\ BuilderLoops
  /\ LET best == BestCandidate(Frame, CurrentFeasibles, group_global,
                               score_cache, feature_cache)
     IN /\ group_global' = Append(group_global, best)
        /\ remaining_global' = remaining_global
  /\ score_cache' = ScoreCacheAfterScan(Frame, CurrentFeasibles, group_global,
                                        score_cache, feature_cache)
  /\ feature_cache' = FeatureCacheAfterScan(Frame, CurrentFeasibles, group_global,
                                            score_cache, feature_cache)
  /\ UNCHANGED <<inputs, pool, used, features_df, groups, ungrouped, explanations, partitions,
                 sub, available, compat_matrix, local_indices, pc, run, history>>
  /\ UNCHANGED email

\* one iteration of the while loop: score the feasible candidates, append the
\* best one
Extend ==
  /\ pc = "extend"
  /\ BuilderLoops
  /\ LET best == BestCandidate(Frame, CurrentFeasibles, group_global,
                               score_cache, feature_cache)
     IN /\ group_global' = Append(group_global, best)
        /\ remaining_global' = remaining_global \ {best}
  /\ score_cache' = ScoreCacheAfterScan(Frame, CurrentFeasibles, group_global,
                                        score_cache, feature_cache)
  /\ feature_cache' = FeatureCacheAfterScan(Frame, CurrentFeasibles, group_global,
                                            score_cache, feature_cache)
  /\ UNCHANGED <<inputs, pool, used, features_df, groups, ungrouped, explanations, partitions,
                 sub, available, compat_matrix, local_indices, pc, run, history>>
  /\ UNCHANGED email

\* the builder returns [] (fewer than four members); _process_subspace breaks
\* out of its loop and returns
RejectGroup ==
  /\ driver = "engine"
  /\ pc = "extend"
  /\ ~BuilderLoops
  /\ Len(group_global) < BUILDER_MIN_GROUP_SIZE
  /\ group_global' = <<>>
  /\ remaining_global' = {}
  /\ sub' = sub + 1
  /\ pc' = "subspace"
  /\ UNCHANGED <<inputs, pool, used, features_df, groups, ungrouped, explanations, partitions,
                 available, compat_matrix, local_indices, score_cache,
                 feature_cache, run, history>>
  /\ UNCHANGED email

\* the builder returns the group; _process_subspace records it with its
\* explanation, shrinks available and rebuilds the matrix
EmitGroup ==
  /\ driver = "engine"
  /\ pc = "extend"
  /\ ~BuilderLoops
  /\ Len(group_global) >= BUILDER_MIN_GROUP_SIZE
  /\ groups' = Append(groups, group_global)
  /\ ungrouped' = ungrouped \ Range(group_global)
  /\ explanations' = Append(explanations,
                       create_group_explanation(features_df, policy, group_global,
                                                partitions[sub].key, score_cache,
                                                feature_cache))
  /\ score_cache' = ScoreCacheAfter(features_df, group_global, TRUE, score_cache,
                                    feature_cache)
  /\ feature_cache' = FeatureCacheAfter(features_df, group_global, TRUE, score_cache,
                                        feature_cache)
  /\ LET avail == Filter(available, ungrouped \ Range(group_global))
     IN /\ available' = avail
        /\ compat_matrix' = IF avail # <<>>
                            THEN build_compatibility_matrix(features_df, policy, avail)
                            ELSE compat_matrix
  /\ group_global' = <<>>
  /\ remaining_global' = {}
  /\ pc' = "loop"
  /\ UNCHANGED <<inputs, pool, used, features_df, partitions, sub, local_indices, run, history>>
  /\ UNCHANGED email

\* run() returns after the last subspace
Finish ==
  /\ driver = "engine"
  /\ pc = "subspace"
  /\ sub > Len(partitions)
  /\ pc' = "done"
  /\ history' = Append(history, RunRecord("done"))
  /\ UNCHANGED <<inputs, pool, used, features_df, groups, ungrouped, explanations, partitions,
                 sub, available, compat_matrix, local_indices, group_global,
                 remaining_global, score_cache, feature_cache, run>>
  /\ UNCHANGED email

(***************************************************************************)
(* Legacy driver (sotrim_algo.make_groups)                                 *)
(***************************************************************************)
\* sotrim_algo.subspace_key: per CUT_CATEGORICAL column <<col, str(cell)>>
subspace_key(row, cfg) ==
  IF "language" \in cfg.hard_categorical
  THEN << <<"language", LegacyCell(row.language)>> >>
  ELSE <<>>

\* sotrim_algo.partition_into_subspaces: the buckets as a sequence of
\* [key, indices] in insertion order
RECURSIVE BucketRows(_, _, _, _)
BucketRows(rawdf, cfg, i, acc) ==
  IF i >= Len(rawdf) THEN acc
  ELSE LET key == subspace_key(Row(rawdf, i), cfg)
           hit == {k \in 1..Len(acc) : acc[k].key = key}
       IN IF hit = {}
          THEN BucketRows(rawdf, cfg, i + 1, Append(acc, [key |-> key, indices |-> <<i>>]))
          ELSE LET k == CHOOSE k \in hit : TRUE
               IN BucketRows(rawdf, cfg, i + 1, [acc EXCEPT ![k].indices = Append(@, i)])

partition_into_subspaces(rawdf, cfg) == BucketRows(rawdf, cfg, 0, <<>>)

\* [i for i in seq if i not in drop]
FilterOut(seq, drop) == SelectSeq(seq, LAMBDA i : i \notin drop)

\* make_groups up to the loop over the subspaces: clear_caches(), partition
MakeGroups ==
  /\ driver = "legacy"
  /\ pc = "start"
  /\ score_cache' = EmptyCache
  /\ feature_cache' = EmptyCache
  /\ partitions' = partition_into_subspaces(responses, config)
  /\ groups' = <<>>
  /\ used' = {}
  /\ sub' = 1
  /\ pc' = "subspace"
  /\ UNCHANGED <<inputs, pool, features_df, ungrouped, explanations, available,
                 compat_matrix, local_indices, group_global, remaining_global,
                 run, history>>
  /\ UNCHANGED email

\* the pool of the subspace is too small: continue with the next subspace
LegacySkipSubspace ==
  /\ driver = "legacy"
  /\ pc = "subspace"
  /\ sub <= Len(partitions)
  /\ Len(FilterOut(partitions[sub].indices, used)) < BUILDER_MIN_GROUP_SIZE
  /\ pool' = FilterOut(partitions[sub].indices, used)
  /\ sub' = sub + 1
  /\ UNCHANGED <<inputs, used, features_df, groups, ungrouped, explanations,
                 partitions, available, compat_matrix, local_indices,
                 group_global, remaining_global, score_cache, feature_cache, pc,
                 run, history>>
  /\ UNCHANGED email

\* the pool is large enough: build the matrix of the subspace, once
LegacyEnterSubspace ==
  /\ driver = "legacy"
  /\ pc = "subspace"
  /\ sub <= Len(partitions)
  /\ LET p == FilterOut(partitions[sub].indices, used)
     IN /\ Len(p) >= BUILDER_MIN_GROUP_SIZE
        /\ pool' = p
        /\ compat_matrix' = build_compatibility_matrix_vectorized(responses, config, p)
  /\ pc' = "loop"
  /\ UNCHANGED <<inputs, used, features_df, groups, ungrouped, explanations,
                 partitions, sub, available, local_indices, group_global,
                 remaining_global, score_cache, feature_cache, run, history>>
  /\ UNCHANGED email

\* while True: too few available candidates, break
LegacyLeaveSubspace ==
  /\ driver = "legacy"
  /\ pc = "loop"
  /\ Len(FilterOut(pool, used)) < BUILDER_MIN_GROUP_SIZE
  /\ available' = FilterOut(pool, used)
  /\ sub' = sub + 1
  /\ pc' = "subspace"
  /\ UNCHANGED <<inputs, pool, used, features_df, groups, ungrouped, explanations,
                 partitions, compat_matrix, local_indices, group_global,
                 remaining_global, score_cache, feature_cache, run, history>>
  /\ UNCHANGED email

\* while True: local_indices = [pool.index(idx) ...] over the current pool, then
\* build_one_group_optimized up to its while loop
LegacyStartGroup ==
  /\ driver = "legacy"
  /\ pc = "loop"
  /\ LET cands == FilterOut(pool, used)
         locals == [k \in 1..Len(cands) |-> PositionOf(pool, cands[k]) - 1]
         seed == SelectSeed(cands, compat_matrix, locals)
     IN /\ Len(cands) >= BUILDER_MIN_GROUP_SIZE
        /\ available' = cands
        /\ local_indices' = locals
        /\ group_global' = <<seed>>
        /\ remaining_global' = Range(cands) \ {seed}
  /\ pc' = "extend"
  /\ UNCHANGED <<inputs, pool, used, features_df, groups, ungrouped, explanations,
                 partitions, sub, compat_matrix, score_cache, feature_cache, run,
                 history>>
  /\ UNCHANGED email

\* variant of LegacyRejectGroup: after an empty result the loop of the same
\* subspace calls the builder again
LegacyRejectGroup_Retry ==
  /\ driver = "legacy"
  /\ pc = "extend"
  /\ ~BuilderLoops
  /\ Len(group_global) < BUILDER_MIN_GROUP_SIZE
  /\ group_global' = <<>>
  /\ remaining_global' = {}
  /\ pc' = "loop"
  /\ UNCHANGED <<inputs, pool, used, features_df, groups, ungrouped, explanations,
                 partitions, sub, available, compat_matrix, local_indices, score_cache,
                 feature_cache, run, history>>
  /\ UNCHANGED email

\* the builder returns []: break out of the while loop
LegacyRejectGroup ==
  /\ driver = "legacy"
  /\ pc = "extend"
  /\ ~BuilderLoops
  /\ Len(group_global) < BUILDER_MIN_GROUP_SIZE
  /\ group_global' = <<>>
  /\ remaining_global' = {}
  /\ sub' = sub + 1
  /\ pc' = "subspace"
  /\ UNCHANGED <<inputs, pool, used, features_df, groups, ungrouped, explanations,
                 partitions, available, compat_matrix, local_indices, score_cache,
                 feature_cache, run, history>>
  /\ UNCHANGED email

\* the builder returns a group: record it, update used and the pool; the
\* matrix of the subspace is kept
LegacyEmitGroup ==
  /\ driver = "legacy"
  /\ pc = "extend"
  /\ ~BuilderLoops
  /\ Len(group_global) >= BUILDER_MIN_GROUP_SIZE
  /\ groups' = Append(groups, group_global)
  /\ used' = used \cup Range(group_global)
  /\ pool' = FilterOut(pool, used \cup Range(group_global))
  /\ group_global' = <<>>
  /\ remaining_global' = {}
  /\ pc' = "loop"
  /\ UNCHANGED <<inputs, features_df, ungrouped, explanations, partitions, sub,
                 available, compat_matrix, local_indices, score_cache,
                 feature_cache, run, history>>
  /\ UNCHANGED email

\* make_groups returns all_groups
LegacyFinish ==
  /\ driver = "legacy"
  /\ pc = "subspace"
  /\ sub > Len(partitions)
  /\ pc' = "done"
  /\ history' = Append(history, RunRecord("done"))
  /\ UNCHANGED <<inputs, pool, used, features_df, groups, ungrouped, explanations,
                 partitions, sub, available, compat_matrix, local_indices,
                 group_global, remaining_global, score_cache, feature_cache, run>>
  /\ UNCHANGED email

\* a new GroupingEngine over resp (or another call of make_groups) in the same
\* process: the locals are fresh, the module-level caches are whatever the
\* earlier runs left
NewEngine(resp) ==
  /\ responses' = resp
  /\ features_df' = BuildFrame(resp, norm, policy)
  /\ groups' = <<>>
  /\ ungrouped' = 0..(Len(resp) - 1)
  /\ explanations' = <<>>
  /\ partitions' = <<>>
  /\ sub' = 0
  /\ available' = <<>>
  /\ compat_matrix' = EmptyMatrix
  /\ local_indices' = <<>>
  /\ pool' = <<>>
  /\ used' = {}
  /\ group_global' = <<>>
  /\ remaining_global' = {}
  /\ pc' = "start"
  /\ run' = run + 1
  /\ UNCHANGED <<norm, policy, config, driver, score_cache, feature_cache, history>>
  /\ UNCHANGED email

\* the same survey with the answers on "x" moved one row up
OtherResponses(resp) ==
  [k \in 1..Len(resp) |-> [resp[k] EXCEPT !.x = resp[(k % Len(resp)) + 1].x]]

\* another run is requested for the same responses and policy
RunAgain ==
  /\ pc \in {"done", "failed"}
  /\ run < MaxRuns
  /\ NewEngine(responses)

\* the first run is followed by a run over other data
RunOther ==
  /\ pc \in {"done", "failed"}
  /\ run = 1
  /\ run < MaxRuns
  /\ NewEngine(OtherResponses(responses))

Next ==
  \/ Run
  \/ SkipSubspace
  \/ EnterSubspace
  \/ LeaveSubspace
  \/ BuildGroupRaises
  \/ StartGroup
  \/ Extend
  \/ RejectGroup
  \/ EmitGroup
  \/ Finish
  \/ MakeGroups
  \/ LegacySkipSubspace
  \/ LegacyEnterSubspace
  \/ LegacyLeaveSubspace
  \/ LegacyStartGroup
  \/ LegacyRejectGroup
  \/ LegacyEmitGroup
  \/ LegacyFinish
  \/ RunAgain
  \/ RunOther

Spec == Init /\ [][Next]_vars

(***************************************************************************)
(* group_score with a soft-categorical field (SOFT_CATEGORICAL), called    *)
(* without and then with explain on one group                              *)
(***************************************************************************)
\* CONFIG["scoring_weights"]["categorical_diversity"]: 0.1
CATEGORICAL_DIVERSITY == <<1, 10>>

\* SOFT_CATEGORICAL for the column "language": its scoring type, or "none"
\* for a CONFIG without soft-categorical fields
ScoringTypes == {"none", "diversity", "balance"}

\* a CONFIG without cuts whose SOFT_CATEGORICAL is {"language": scoring}
ConfigSoft(scoring) ==
  [use_sparse_matrix |-> FALSE, hard_categorical |-> {}, hard_multi_choice |-> {},
   hard_numeric_tolerance |-> NaN, age_rules |-> NoAgeRules, flexible_answers |-> {"any"},
   soft_categorical |-> scoring]

\* values.nunique() of df_group["language"].astype(str).str.strip(): a
\* missing cell reads "nan" and counts as a value
UniqueCount(df, members) ==
  Cardinality({LegacyCell(Row(df, members[k]).language) : k \in 1..Len(members)})

\* categorical_diversity_score of group_score for the one soft field
categorical_diversity_score(df, members, scoring) ==
  IF scoring = "diversity" THEN Rat(UniqueCount(df, members), Len(members))
  ELSE IF scoring = "balance" /\ UniqueCount(df, members) > 1
  THEN Rat(Min2(UniqueCount(df, members), 3), 3)
  ELSE <<0, 1>>

\* the final score: the numeric terms plus CATEGORICAL_DIVERSITY times the
\* categorical term
SoftScore(df, members, scoring, fcache) ==
  RatAdd(ComputeScore(df, members, fcache),
         RatMul(CATEGORICAL_DIVERSITY, categorical_diversity_score(df, members, scoring)))

\* explain mode fills categorical_details[col] from value_counts, which only
\* the balance branch assigns, and from balance_score, which that branch
\* assigns only when it saw more than one value: reading the unbound local
\* raises
ExplainRaises(df, members, scoring) ==
  \/ scoring = "diversity"
  \/ scoring = "balance" /\ UniqueCount(df, members) <= 1

\* number of rows of the scored frames
ScoreRows == 4

\* frames of rows that differ in "language" and "x"
ScoreFrames ==
  { [k \in 1..ScoreRows |-> Response(langs[k], {"north"}, 3, 26, 1 + 2 * (k % 2))] :
      langs \in [1..ScoreRows -> RawLanguages] }

\* a frame, a group (its first rows) and a scoring type; the caches are empty
ScoreInit ==
  \E resp \in ScoreFrames, size \in 1..ScoreRows, scoring \in ScoringTypes :
    /\ driver = "scorer"
    /\ responses = resp
    /\ norm = NoNormalization
    /\ policy = PolicyLanguage
    /\ config = ConfigSoft(scoring)
    /\ pool = <<>>
    /\ used = {}
    /\ features_df = <<>>
    /\ groups = <<>>
    /\ ungrouped = {}
    /\ explanations = <<>>
    /\ partitions = <<>>
    /\ sub = 0
    /\ available = <<>>
    /\ compat_matrix = EmptyMatrix
    /\ local_indices = <<>>
    /\ group_global = [k \in 1..size |-> k - 1]
    /\ remaining_global = {}
    /\ score_cache = EmptyCache
    /\ feature_cache = EmptyCache
    /\ pc = "score"
    /\ run = 1
    /\ history = <<>>
    /\ NoEmail

\* group_score(df_group): the score is returned and cached
ScoreCall ==
  /\ pc = "score"
  /\ LET score == SoftScore(responses, group_global, config.soft_categorical, feature_cache)
     IN /\ history' = Append(history, [explain |-> FALSE, score |-> score])
        /\ score_cache' = (Range(group_global) :> score) @@ score_cache
  /\ feature_cache' = FeatureCacheAfter(responses, group_global, FALSE,
                                        score_cache, feature_cache)
  /\ pc' = "scored"
  /\ UNCHANGED <<inputs, pool, used, features_df, groups, ungrouped, explanations,
                 partitions, sub, available, compat_matrix, local_indices,
                 group_global, remaining_global, run>>
  /\ UNCHANGED email

\* group_score(df_group, explain=True) returns: the cache is not consulted
ExplainCall ==
  /\ pc = "scored"
  /\ ~ExplainRaises(responses, group_global, config.soft_categorical)
  /\ LET score == SoftScore(responses, group_global, config.soft_categorical, feature_cache)
     IN /\ history' = Append(history, [explain |-> TRUE, score |-> score])
        /\ score_cache' = (Range(group_global) :> score) @@ score_cache
  /\ pc' = "explained"
  /\ UNCHANGED <<inputs, pool, used, features_df, groups, ungrouped, explanations,
                 partitions, sub, available, compat_matrix, local_indices,
                 group_global, remaining_global, feature_cache, run>>
  /\ UNCHANGED email

\* group_score(df_group, explain=True) raises inside the soft-categorical
\* loop, before the score is computed
ExplainRaise ==
  /\ pc = "scored"
  /\ ExplainRaises(responses, group_global, config.soft_categorical)
  /\ pc' = "raised"
  /\ UNCHANGED <<inputs, pool, used, features_df, groups, ungrouped, explanations,
                 partitions, sub, available, compat_matrix, local_indices,
                 group_global, remaining_global, score_cache, feature_cache, run,
                 history>>
  /\ UNCHANGED email

ScoreNext ==
  \/ ScoreCall
  \/ ExplainCall
  \/ ExplainRaise

ScoreSpec == ScoreInit /\ [][ScoreNext]_vars

(***************************************************************************)
(* Email verification (create_email_verification, verify_email_token)      *)
(***************************************************************************)
\* settings.EMAIL_VERIFICATION_EXPIRE_HOURS
EMAIL_VERIFICATION_EXPIRE_HOURS == 24

\* participants.id of the registered participants
Participants == {1, 2}

\* most rows of email_verifications
MaxVerifications == 3

\* the clock runs up to this hour
MaxHours == 48

\* hours between two looks at the clock
TickHours == 12

\* tzinfo of the datetimes of a column DateTime(timezone=True) as the
\* database driver hands them back: psycopg2 returns a PostgreSQL
\* timestamptz as an aware datetime; a driver without time zone support
\* returns them naive
LoadedTz == {"aware", "naive"}

\* datetime.utcnow() > verification.expires_at: utcnow() is naive, and the
\* order comparison of a naive with an aware datetime raises TypeError
ExpiryCheckRaises == loaded_tz = "aware"

\* the first pending row with this token (tokens are unique), 0 if none
PendingRow(token) ==
  IF token \in DOMAIN verifications /\ verifications[token].status = "pending"
  THEN token ELSE 0

\* the tables hold the participants, none verified, and no verification
EmailInit ==
  \E tz \in LoadedTz :
    /\ driver = "email"
    /\ responses = <<>>
    /\ norm = NoNormalization
    /\ policy = PolicyLanguage
    /\ config = ConfigDense
    /\ pool = <<>>
    /\ used = {}
    /\ features_df = <<>>
    /\ groups = <<>>
    /\ ungrouped = {}
    /\ explanations = <<>>
    /\ partitions = <<>>
    /\ sub = 0
    /\ available = <<>>
    /\ compat_matrix = EmptyMatrix
    /\ local_indices = <<>>
    /\ group_global = <<>>
    /\ remaining_global = {}
    /\ score_cache = EmptyCache
    /\ feature_cache = EmptyCache
    /\ pc = "email"
    /\ run = 1
    /\ history = <<>>
    /\ verifications = <<>>
    /\ email_verified = [p \in Participants |-> FALSE]
    /\ now = 0
    /\ loaded_tz = tz
    /\ verify_result = NoCall

grouping == <<inputs, pool, used, features_df, groups, ungrouped, explanations,
              partitions, sub, available, compat_matrix, local_indices,
              group_global, remaining_global, score_cache, feature_cache, pc,
              run, history>>

\* create_email_verification(db, participant, email): the participant's
\* pending rows expire and a pending row is added
CreateVerification ==
  \E p \in Participants :
    /\ driver = "email"
    /\ Len(verifications) < MaxVerifications
    /\ verifications' =
         Append([t \in DOMAIN verifications |->
                   IF verifications[t].participant_id = p
                      /\ verifications[t].status = "pending"
                   THEN [verifications[t] EXCEPT !.status = "expired"]
                   ELSE verifications[t]],
                [participant_id |-> p, status |-> "pending",
                 expires_at |-> now + EMAIL_VERIFICATION_EXPIRE_HOURS])
    /\ verify_result' = NoCall
    /\ UNCHANGED <<grouping, email_verified, now, loaded_tz>>

\* time passes
Tick ==
  /\ driver = "email"
  /\ now + TickHours <= MaxHours
  /\ now' = now + TickHours
  /\ verify_result' = NoCall
  /\ UNCHANGED <<grouping, verifications, email_verified, loaded_tz>>

\* verify_email_token(db, token): no pending row has the token
VerifyUnknown ==
  \E token \in 1..MaxVerifications :
    /\ driver = "email"
    /\ PendingRow(token) = 0
    /\ verify_result' = [token |-> token, outcome |-> "none"]
    /\ UNCHANGED <<grouping, verifications, email_verified, now, loaded_tz>>

\* verify_email_token(db, token): the expiry check of the pending row raises
VerifyRaises ==
  \E token \in 1..MaxVerifications :
    /\ driver = "email"
    /\ PendingRow(token) # 0
    /\ ExpiryCheckRaises
    /\ verify_result' = [token |-> token, outcome |-> "raised"]
    /\ UNCHANGED <<grouping, verifications, email_verified, now, loaded_tz>>

\* verify_email_token(db, token): the pending row is past its expires_at
VerifyExpired ==
  \E token \in 1..MaxVerifications :
    /\ driver = "email"
    /\ PendingRow(token) # 0
    /\ ~ExpiryCheckRaises
    /\ now > verifications[token].expires_at
    /\ verifications' = [verifications EXCEPT ![token].status = "expired"]
    /\ verify_result' = [token |-> token, outcome |-> "none"]
    /\ UNCHANGED <<grouping, email_verified, now, loaded_tz>>

\* verify_email_token(db, token): the row is verified and the participant's
\* flag is set (a row's participant exists: the foreign key cascades)
VerifyToken ==
  \E token \in 1..MaxVerifications :
    /\ driver = "email"
    /\ PendingRow(token) # 0
    /\ ~ExpiryCheckRaises
    /\ ~(now > verifications[token].expires_at)
    /\ verifications' = [verifications EXCEPT ![token].status = "verified"]
    /\ email_verified' =
         [email_verified EXCEPT ![verifications[token].participant_id] = TRUE]
    /\ verify_result' = [token |-> token, outcome |-> "participant"]
    /\ UNCHANGED <<grouping, now, loaded_tz>>

EmailNext ==
  \/ CreateVerification
  \/ Tick
  \/ VerifyUnknown
  \/ VerifyRaises
  \/ VerifyExpired
  \/ VerifyToken

EmailSpec == EmailInit /\ [][EmailNext]_vars

(***************************************************************************)
(* Hard rules, as sotrim_algo.pass_pairwise_cuts and                       *)
(* check_age_compatibility define them for a pair of rows                  *)
(***************************************************************************)
\* categorical_equal on a field: the expanded sets intersect
CategoricalRuleHolds(a, b, field) == a[field] \cap b[field] # {}

\* multi_overlap on a field: the sets intersect
MultiRuleHolds(a, b, field) == a[field] \cap b[field] # {}

\* numeric_tol: both values present and within the tolerance
NumericRuleHolds(a, b, tol) ==
  /\ a.budget # NaN
  /\ b.budget # NaN
  /\ Abs(a.budget - b.budget) <= tol

\* every hard rule the policy configures holds for the pair
HardRulesHold(pol, a, b) ==
  /\ \A f \in pol.categorical_equal : CategoricalRuleHolds(a, b, f)
  /\ \A f \in pol.multi_overlap : MultiRuleHolds(a, b, f)
  /\ pol.numeric_tol # NaN => NumericRuleHolds(a, b, pol.numeric_tol)
  /\ pol.age_rules.present => check_age_compatibility(a.age, b.age, pol.age_rules)

\* the ages of a group, in member order
GroupAges(df, group) == [k \in 1..Len(group) |-> Row(df, group[k]).age]

(***************************************************************************)
(* Properties                                                              *)
(***************************************************************************)
\* C1: in every emitted group every pair of distinct members satisfies every
\* hard rule of the policy (categorical_equal, multi_overlap, numeric_tol,
\* age_rules), however many groups were extracted before.
C1_HardRulesInGroups ==
  driver = "engine" =>
  \A k \in 1..Len(groups) :
    \A i, j \in Range(groups[k]) :
      i # j => HardRulesHold(policy, Row(features_df, i), Row(features_df, j))

\* C2: every emitted group has between fallback.min_group_size and group_size
\* members of the policy.
C2_GroupSizeWithinPolicy ==
  driver = "engine" =>
  \A k \in 1..Len(groups) :
    /\ policy.min_group_size <= Len(groups[k])
    /\ Len(groups[k]) <= policy.group_size

\* C3: the emitted groups of a run are pairwise disjoint and no group lists a
\* row twice.
C3_GroupsDisjoint ==
  /\ \A k \in 1..Len(groups) : Cardinality(Range(groups[k])) = Len(groups[k])
  /\ \A k, l \in 1..Len(groups) :
        k # l => Range(groups[k]) \cap Range(groups[l]) = {}

\* two groups have been emitted, the second one from the same subspace after
\* the matrix was rebuilt
C3_Witness ==
  /\ Len(groups) >= 2
  /\ Len(partitions) = 1

\* C4: when the policy's age_rules.group_constraints set max_age_difference
\* and/or max_age_std, every emitted group keeps within them.
C4_GroupAgeConstraints ==
  \A k \in 1..Len(groups) :
    (driver = "engine" /\ policy.age_rules.present) =>
      LET ages == SelectSeq(GroupAges(features_df, groups[k]), LAMBDA v : v # NaN)
      IN ages # <<>> =>
           /\ policy.age_rules.max_age_difference # NoLimit =>
                AgeRange(ages) <= policy.age_rules.max_age_difference
           /\ policy.age_rules.max_age_std # NoLimit =>
                StdWithin(ages, policy.age_rules.max_age_std)

\* C5: every compatibility matrix a run holds, whether built by
\* GroupingEngine._build_compatibility_matrix or by
\* build_compatibility_matrix_vectorized, is reflexive and symmetric.
C5_MatrixReflexiveSymmetric ==
  \A pq \in DOMAIN compat_matrix :
    /\ compat_matrix[<<pq[1], pq[1]>>]
    /\ compat_matrix[pq] = compat_matrix[<<pq[2], pq[1]>>]

\* make_groups holds a vectorized matrix over rows of different age bands
\* that has compatible and incompatible pairs
C5_Witness ==
  /\ driver = "legacy"
  /\ config = ConfigCross
  /\ pc = "loop"
  /\ \E pq \in DOMAIN compat_matrix :
        /\ pq[1] # pq[2]
        /\ compat_matrix[pq]
        /\ Row(responses, pool[pq[1] + 1]).age # Row(responses, pool[pq[2] + 1]).age
  /\ \E pq \in DOMAIN compat_matrix : ~compat_matrix[pq]

\* C6: a row whose raw answer on the hard categorical field "language" is a
\* flexible answer is compatible on that field with every row whose answer is
\* a concrete option of the field.
C6_FlexibleMatchesEveryOption ==
  (driver = "engine" /\ "language" \in policy.categorical_equal) =>
    \A i, j \in 1..Len(responses) :
      (responses[i].language \in policy.flexible_answers
         /\ responses[j].language \in LanguageOptions)
      => check_categorical_match(features_df[i].language, features_df[j].language)

\* C7: no categorical set of a feature record holds a raw wildcard token (a
\* value of the field's wildcards or of the policy's flexible_answers).
C7_NoRawWildcard ==
  driver = "engine" =>
  \A i \in 1..Len(features_df) :
    /\ features_df[i].language \cap (norm.wildcards \cup policy.flexible_answers) = {}
    /\ features_df[i].area \cap policy.flexible_answers = {}

\* the run is over (run() returned or raised)
RunOver == pc \in {"done", "failed"}

\* the inputs of scenario B: no subspaces, categorical_equal on language
IsScenarioB == driver = "engine" /\ responses \in ScenarioB /\ policy = PolicyLanguage

\* C8: scenario B yields exactly one group, made of the six "he" rows 0..5,
\* and row 6 is the only ungrouped row.
C8_ScenarioB_OneGroup ==
  (IsScenarioB /\ pc = "done") =>
    /\ Len(groups) = 1
    /\ Range(groups[1]) = 0..5
    /\ ungrouped = {6}

\* C8 as amended: scenario B yields no group at all; the isolated "en" row is
\* the seed, cannot be extended, and all seven rows stay ungrouped.
C8_ScenarioB_NoGroup ==
  (IsScenarioB /\ RunOver) =>
    /\ groups = <<>>
    /\ ungrouped = 0..6

\* a run over scenario B has returned after its builder was called on all
\* seven rows
C8_Witness ==
  /\ IsScenarioB
  /\ pc = "done"
  /\ sub = 2
  /\ Len(available) = 7
  /\ Len(local_indices) = 7

\* the inputs of scenario D: he x 3, en x 2, flexible x 1
IsScenarioD ==
  /\ responses \in ScenarioD
  /\ policy = PolicyLanguage
  /\ driver = "engine"

C10_Deterministic ==
  \A a, b \in 1..Len(history) :
    (/\ history[a].responses = history[b].responses
     /\ history[a].policy = history[b].policy
     /\ history[a].norm = history[b].norm
     /\ history[a].config = history[b].config)
    => /\ history[a].groups = history[b].groups
       /\ history[a].explanations = history[b].explanations
       /\ history[a].stats = history[b].stats

\* the score of the current frame's rows at the labels of members, computed
\* afresh
TrueScore(members) == ComputeScore(Frame, members, EmptyCache)

\* C11: in every extension step the appended candidate x has
\* score(G + x) >= score(G + y) for every candidate y feasible at that step.
C11_AppendedIsArgmax ==
  [][ (pc = "extend" /\ Len(group_global') = Len(group_global) + 1) =>
        LET x == group_global'[Len(group_global')]
        IN \A k \in 1..Len(CurrentFeasibles) :
              ~RatGreater(TrueScore(Append(group_global, CurrentFeasibles[k])),
                          TrueScore(Append(group_global, x))) ]_vars

\* C12: normalizing again the set of values that normalizing a raw answer
\* produced yields the same set, for the single_select field "language" and the
\* multi_select field "area", under every normalization block.
C12_NormalizeIdempotent ==
  driver = "engine" =>
    /\ \A v \in RawLanguages :
          normalize_multi_answer(
              normalize_answer(v, LanguageField(norm), policy.flexible_answers),
              LanguageField(norm), policy.flexible_answers)
            = normalize_answer(v, LanguageField(norm), policy.flexible_answers)
    /\ \A k \in 1..Len(features_df) :
          /\ normalize_multi_answer(features_df[k].language, LanguageField(norm),
                                    policy.flexible_answers) = features_df[k].language
          /\ normalize_multi_answer(features_df[k].area, AreaField,
                                    policy.flexible_answers) = features_df[k].area

\* C13: with subspaces configured, all members of an emitted group have the
\* same composite subspace key.
C13_GroupWithinOneSubspace ==
  (driver = "engine" /\ policy.subspaces # <<>>) =>
    \A k \in 1..Len(groups) : \A a, b \in Range(groups[k]) :
        SubspaceKey(Row(features_df, a), policy.subspaces)
          = SubspaceKey(Row(features_df, b), policy.subspaces)

\* a run over rows of two subspaces has emitted a group
C13_Witness ==
  /\ driver = "engine"
  /\ policy.subspaces # <<>>
  /\ Len(partitions) >= 2
  /\ Len(groups) >= 1
  /\ \E a \in RowIndices(features_df) :
        SubspaceKey(Row(features_df, a), policy.subspaces)
          # SubspaceKey(Row(features_df, groups[1][1]), policy.subspaces)

\* the row labels that occur in an emitted group
GroupedIndices == UNION {Range(groups[k]) : k \in 1..Len(groups)}

\* C14: when an engine run is over, the ungrouped set is exactly the rows in
\* no emitted group, the rows of a subspace that produced no group are all
\* ungrouped, and total_participants = sum(group_sizes) +
\* ungrouped_participants.
C14_UngroupedAccounting ==
  (driver = "engine" /\ RunOver) =>
    LET stats == get_statistics(features_df, groups, ungrouped) IN
    /\ ungrouped = RowIndices(features_df) \ GroupedIndices
    /\ \A p \in 1..Len(partitions) :
          Range(partitions[p].indices) \cap GroupedIndices = {}
            => Range(partitions[p].indices) \subseteq ungrouped
    /\ stats.total_participants
          = SeqSum(stats.group_sizes) + stats.ungrouped_participants

\* a finished run with a group, and a subspace that produced none
C14_Witness ==
  /\ driver = "engine"
  /\ pc = "done"
  /\ Len(groups) >= 1
  /\ \E p \in 1..Len(partitions) :
        /\ partitions[p].indices # <<>>
        /\ Range(partitions[p].indices) \cap GroupedIndices = {}

\* C15: an engine bound to a policy that contradicts itself (min_group_size
\* above group_size) is rejected at binding: it never builds a compatibility
\* matrix and never forms a group.
C15_ContradictoryPolicyRejected ==
  (driver = "engine" /\ policy.min_group_size > policy.group_size) =>
    /\ compat_matrix = EmptyMatrix
    /\ groups = <<>>

\* C16: every value the normalizer treats as a wildcard of the single_select
\* field "language" (a member of the field's wildcards or of the policy's
\* flexible_answers) is accepted by response validation.
C16_WildcardsPassValidation ==
  (driver = "engine" /\ norm.hasBlock) =>
    \A v \in norm.wildcards \cup policy.flexible_answers :
        validate_single_select(v, LanguageField(norm))

FreshMatrix ==
  IF driver = "legacy"
  THEN build_compatibility_matrix_vectorized(responses, config, available)
  ELSE build_compatibility_matrix(features_df, policy, available)

\* C18: whenever the builder runs, the matrix entry it reads for two of its
\* candidates (through local_indices) is the compatibility of exactly those
\* two rows, also after earlier groups were extracted from the subspace.
C18_MatrixMatchesAvailable ==
  pc = "extend" =>
    \A k, l \in 1..Len(available) :
        /\ <<local_indices[k], local_indices[l]>> \in DOMAIN compat_matrix
        /\ compat_matrix[<<local_indices[k], local_indices[l]>>]
             = FreshMatrix[<<k - 1, l - 1>>]

\* C19: every value group_score returns to the scan of an extension step is
\* the score of the current rows, never one memoized by an earlier run: in
\* every run the caches start empty.
C19_NoStaleScore ==
  /\ (pc = "extend" /\ BuilderLoops) =>
        \A k \in 1..Len(CurrentFeasibles) :
            group_score(Frame, Append(group_global, CurrentFeasibles[k]), FALSE,
                        score_cache, feature_cache)
              = TrueScore(Append(group_global, CurrentFeasibles[k]))
  /\ (pc = "subspace" /\ sub = 1) =>
        (score_cache = EmptyCache /\ feature_cache = EmptyCache)

\* C20: under a numeric_tol rule, a matrix entry of two distinct records is
\* True only if both values are present and |a - b| <= tol: a pair with a
\* missing value is marked incompatible. The engine's matrix is over
\* available, the matrix of make_groups over the pool it was built for.
C20_MissingNumericIncompatible ==
  /\ (driver = "engine" /\ pc \in {"loop", "extend"} /\ policy.numeric_tol # NaN) =>
        \A k, l \in 1..Len(available) :
            (k # l /\ compat_matrix[<<k - 1, l - 1>>]) =>
               NumericRuleHolds(Row(features_df, available[k]),
                                Row(features_df, available[l]), policy.numeric_tol)
  /\ (/\ driver = "legacy" /\ pc \in {"loop", "extend"}
      /\ config.hard_numeric_tolerance # NaN
      /\ Cardinality(DOMAIN compat_matrix) = Len(pool) * Len(pool)) =>
        \A k, l \in 1..Len(pool) :
            (k # l /\ compat_matrix[<<k - 1, l - 1>>]) =>
               NumericRuleHolds(Row(responses, pool[k]), Row(responses, pool[l]),
                                config.hard_numeric_tolerance)

\* the age rule as stated: with a shared band, |a - b| within the smallest
\* max_spread of the shared bands (a band without max_spread sets no limit);
\* without one, allow_cross_band and |a - b| within the largest max_spread of
\* the bands of both ages
AgeCompatibleAsStated(a, b, rules) ==
  LET bands1 == BandsOf(a, rules.bands)
      bands2 == BandsOf(b, rules.bands)
      common == bands1 \cap bands2
      limited == {k \in common : rules.bands[k].max_spread # NoSpread}
      spreads == {rules.bands[k].max_spread :
                    k \in {c \in bands1 \cup bands2 : rules.bands[c].max_spread # NoSpread}}
  IN IF common # {}
     THEN \A k \in limited : Abs(a - b) <= rules.bands[k].max_spread
     ELSE /\ rules.allow_cross_band
          /\ bands1 # {} /\ bands2 # {}
          /\ Abs(a - b) <= SetMax(spreads \cup {0})

\* C21: for two present ages the age check of the driver in use agrees with
\* the stated band rule (shared band: smallest max_spread of the shared bands;
\* no shared band: allow_cross_band and the largest max_spread of both ages'
\* bands).
C21_AgeBandRule ==
  \A i, j \in RowIndices(responses) :
    LET a == Row(responses, i).age
        b == Row(responses, j).age
    IN (a # NaN /\ b # NaN) =>
         /\ (driver = "engine" /\ policy.age_rules.present) =>
               (engine_check_age_compatibility(a, b, policy.age_rules)
                  <=> AgeCompatibleAsStated(a, b, policy.age_rules))
         /\ (/\ driver = "legacy" /\ config.age_rules.present
             /\ config.age_rules.legacy_max_age_difference = NoLimit) =>
               (check_age_compatibility(a, b, config.age_rules)
                  <=> AgeCompatibleAsStated(a, b, config.age_rules))

\* C22: with age_rules configured, a matrix entry of two distinct records is
\* True only if both ages are present, and no emitted group of two or more
\* records holds a record whose age is missing.
C22_MissingAgeIncompatible ==
  /\ (driver = "engine" /\ pc \in {"loop", "extend"} /\ policy.age_rules.present) =>
        \A k, l \in 1..Len(available) :
            (k # l /\ compat_matrix[<<k - 1, l - 1>>]) =>
               /\ Row(features_df, available[k]).age # NaN
               /\ Row(features_df, available[l]).age # NaN
  /\ (driver = "engine" /\ policy.age_rules.present) =>
        \A g \in 1..Len(groups) :
            Len(groups[g]) >= 2 =>
               \A m \in Range(groups[g]) : Row(features_df, m).age # NaN
  /\ (/\ driver = "legacy" /\ pc \in {"loop", "extend"}
      /\ config.age_rules.present
      /\ Cardinality(DOMAIN compat_matrix) = Len(pool) * Len(pool)) =>
        \A k, l \in 1..Len(pool) :
            (k # l /\ compat_matrix[<<k - 1, l - 1>>]) =>
               /\ Row(responses, pool[k]).age # NaN
               /\ Row(responses, pool[l]).age # NaN

\* the number of other rows of available the row at position k is compatible
\* with
Degree(k) ==
  Cardinality({l \in 1..Len(available) : l # k /\ FreshMatrix[<<k - 1, l - 1>>]})

\* C23: the seed of a builder call is the available candidate of smallest
\* compatibility degree, and among those of smallest degree the one with the
\* lowest index.
C23_SeedIsMinDegreeLowestIndex ==
  pc = "extend" =>
    \E s \in 1..Len(available) :
       /\ available[s] = group_global[1]
       /\ \A k \in 1..Len(available) :
             \/ Degree(s) < Degree(k)
             \/ (Degree(s) = Degree(k) /\ available[s] <= available[k])

\* C24: in every extension step, no feasible candidate with a lower index has
\* the same score, as returned by group_score to the scan, as the appended
\* candidate.
C24_TieLowestIndex ==
  [][ (pc = "extend" /\ Len(group_global') = Len(group_global) + 1) =>
        LET x == group_global'[Len(group_global')]
            sc(c) == group_score(Frame, Append(group_global, c), FALSE,
                                 score_cache, feature_cache)
        IN \A k \in 1..Len(CurrentFeasibles) :
              sc(CurrentFeasibles[k]) = sc(x) => x <= CurrentFeasibles[k] ]_vars

\* C25: when the builder's loop ends with fewer members than the minimum, the
\* step emits nothing (the groups stay as they were) and the driver goes on
\* to the next subspace; within a run the driver never goes back to an
\* earlier subspace, and every group it appends comes from the subspace it is
\* in and leaves the earlier groups unchanged.
C25_SeedFailureEndsSubspace ==
  [][ /\ (pc = "extend" /\ pc' # "extend"
          /\ Len(group_global) < BUILDER_MIN_GROUP_SIZE) =>
            (groups' = groups /\ sub' = sub + 1 /\ pc' = "subspace")
      /\ (run' = run /\ pc # "start") => sub' >= sub
      /\ (run' = run /\ groups' # groups) =>
            /\ Len(groups') = Len(groups) + 1
            /\ SubSeq(groups', 1, Len(groups)) = groups
            /\ Range(groups'[Len(groups')]) \subseteq Range(partitions[sub].indices) ]_vars

\* make_groups has left a subspace that still holds four unused rows, after a
\* group of that run: the builder returned an empty result there
C25_Witness ==
  /\ driver = "legacy"
  /\ pc = "subspace"
  /\ sub > 1
  /\ Len(groups) >= 1
  /\ Len(FilterOut(pool, used)) >= BUILDER_MIN_GROUP_SIZE

\* lexicographic order of two token lists, as the joined strings compare
RECURSIVE TokensLess(_, _)
TokensLess(s, t) ==
  IF t = <<>> THEN FALSE
  ELSE IF s = <<>> THEN TRUE
  ELSE IF TokenRank(Head(s)) # TokenRank(Head(t)) THEN TokenRank(Head(s)) < TokenRank(Head(t))
  ELSE TokensLess(Tail(s), Tail(t))

\* the composite key of an emitted group (one subspace field)
GroupKey(g) == SubspaceKey(Row(features_df, groups[g][1]), policy.subspaces)

\* C26: the groups of an engine run come in the sorted order of the composite
\* keys of their subspaces: no group of a subspace with a larger key is
\* emitted before a group of a subspace with a smaller key.
C26_SubspacesInKeyOrder ==
  (driver = "engine" /\ Len(policy.subspaces) = 1) =>
    \A g, h \in 1..Len(groups) :
        g < h => ~TokensLess(GroupKey(h)[1][2], GroupKey(g)[1][2])

\* C27: with the soft field scored in balance mode, the categorical term of
\* the score group_score returned is min(1, unique_count / 3), for every
\* number of distinct values of the field in the group, one included.
C27_BalanceContribution ==
  (driver = "scorer" /\ config.soft_categorical = "balance" /\ pc # "score") =>
    history[1].score
      = RatAdd(ComputeScore(responses, group_global, EmptyCache),
               RatMul(CATEGORICAL_DIVERSITY,
                      Rat(Min2(UniqueCount(responses, group_global), 3), 3)))

\* C30: for every configured scoring type, the explain call on a non-empty
\* group returns, and with the same score as the call without explain.
C30_ExplainSameScore ==
  (driver = "scorer" /\ pc \notin {"score", "scored"}) =>
    /\ pc = "explained"
    /\ history[2].score = history[1].score

\* C28: a verify_email_token call with the token of a pending verification
\* whose expires_at lies in the past, or of a verification that such a call
\* left expired, returns no participant, leaves the verification expired and
\* leaves every participant's email_verified flag as it was.
C28_ExpiredTokenRejected ==
  [][\A token \in DOMAIN verifications :
       ( /\ driver = "email"
         /\ verify_result' # NoCall
         /\ verify_result'.token = token
         /\ \/ verifications[token].status = "pending"
                /\ now > verifications[token].expires_at
            \/ verifications[token].status = "expired" )
       => /\ verify_result'.outcome = "none"
          /\ verifications'[token].status = "expired"
          /\ email_verified' = email_verified]_vars

\* the rows the loop of the current subspace can still group
RowsLeft == IF driver = "legacy" THEN Len(pool) ELSE Len(available)

\* what is left of a run: subspaces to process, whether the current one is
\* still to be entered, rows of it left, whether the builder is still to be
\* called, candidates the builder has left
Measure ==
  <<Len(partitions) + 1 - sub,
    IF pc = "subspace" THEN 1 ELSE 0,
    IF pc = "subspace" THEN 0 ELSE RowsLeft,
    IF pc = "loop" THEN 1 ELSE 0,
    Cardinality(remaining_global)>>

\* lexicographic order of tuples of the same length
RECURSIVE LexLess(_, _)
LexLess(a, b) ==
  /\ a # <<>>
  /\ \/ Head(a) < Head(b)
     \/ Head(a) = Head(b) /\ LexLess(Tail(a), Tail(b))

\* C29: a run terminates: every step of a run that does not end it makes
\* what is left of the run smaller; an iteration of the loop of a subspace
\* either leaves the loop or emits a non-empty group and has fewer rows left,
\* and an iteration of the builder's loop has fewer candidates left.
C29_RunTerminates ==
  [][(driver \in {"engine", "legacy"} /\ pc \in {"subspace", "loop", "extend"}) =>
       /\ pc' \in {"subspace", "loop", "extend"} => LexLess(Measure', Measure)
       /\ (pc = "extend" /\ pc' = "loop") =>
            /\ Len(groups') = Len(groups) + 1
            /\ groups'[Len(groups')] # <<>>
            /\ RowsLeft' < RowsLeft
       /\ (pc = "extend" /\ pc' = "extend") =>
            /\ remaining_global' \subseteq remaining_global
            /\ remaining_global' # remaining_global]_vars

\* a run emitted a group and came back to the loop of the subspace with
\* rows left
C29_Witness ==
  /\ pc = "loop"
  /\ groups # <<>>
  /\ RowsLeft > 0
  /\ run = 1

====
